---- MODULE Spec2Model ----
(***************************************************************************)
(* duration-string (src/src/lib.rs): conversion between text such as       *)
(* "1h30m" and std::time::Duration.                                        *)
(*                                                                         *)
(* The text is a sequence of characters (one-character strings; "SUP2"     *)
(* stands for U+00B2, a character that char::is_numeric accepts and that   *)
(* is not an ASCII digit).  u64 and u128 values are exact naturals, kept   *)
(* as little-endian sequences of limbs of radix 10^3 with no leading zero  *)
(* limb, because the values of the program exceed the integers of the      *)
(* model checker.  A Duration is [secs: u64, nanos: 0..999999999].         *)
(***************************************************************************)
EXTENDS Integers, Sequences, FiniteSets, TLC

\* ------------------------------------------------------------------------
\* let bindings: the bound expression is evaluated once, as a `let` of the
\* program evaluates it, and the body is applied to its value
\* ------------------------------------------------------------------------

Bind(v, F(_)) == CHOOSE r \in { F(x) : x \in {v} } : TRUE
Bind2(v, w, F(_, _)) == CHOOSE r \in { F(x, y) : x \in {v}, y \in {w} } : TRUE

\* ------------------------------------------------------------------------
\* Exact unsigned arithmetic (the u64 / u128 operations the program uses)
\* ------------------------------------------------------------------------

Radix == 10 * 100

\* a without its leading (last) zero limbs
Norm(a) ==
  Bind(a, LAMBDA x :
    LET nz == { i \in 1..Len(x) : x[i] # 0 }
    IN  IF nz = {} THEN <<>>
        ELSE SubSeq(x, 1, CHOOSE i \in nz : \A j \in nz : j <= i))

Rev(s) == Bind(s, LAMBDA x : [i \in 1..Len(x) |-> x[Len(x) + 1 - i]])

\* A decimal literal written in groups of three digits, most significant first:
\* Lit(<<31, 556, 926, 0, 0, 0>>) is 31_556_926_000_000_000.
Lit(groups) == Norm(Rev(groups))

\* a model integer (below 2^31, so of at most four limbs)
FromInt(n) ==
  Bind(n, LAMBDA x :
    Norm(<< x % Radix, (x \div Radix) % Radix, (x \div (Radix * Radix)) % Radix,
            x \div (Radix * Radix * Radix) >>))

Rest(a) == IF a = <<>> THEN <<>> ELSE Tail(a)
Low(a) == IF a = <<>> THEN 0 ELSE Head(a)

RECURSIVE AddCarry(_, _, _)
AddCarry(a, b, c) ==
  IF a = <<>> /\ b = <<>> THEN (IF c = 0 THEN <<>> ELSE <<c>>)
  ELSE Bind(<<Rest(a), Rest(b), Low(a) + Low(b) + c>>, LAMBDA t :
         <<t[3] % Radix>> \o AddCarry(t[1], t[2], t[3] \div Radix))

BigAdd(a, b) == Bind2(a, b, LAMBDA x, y : AddCarry(x, y, 0))

\* a - b for a >= b
RECURSIVE SubBorrow(_, _, _)
SubBorrow(a, b, br) ==
  IF a = <<>> THEN <<>>
  ELSE Bind(<<Tail(a), Rest(b), Head(a) - Low(b) - br>>, LAMBDA t :
         <<IF t[3] < 0 THEN t[3] + Radix ELSE t[3]>>
           \o SubBorrow(t[1], t[2], IF t[3] < 0 THEN 1 ELSE 0))

BigSub(a, b) == Bind2(a, b, LAMBDA x, y : Norm(SubBorrow(x, y, 0)))

RECURSIVE MulCarry(_, _, _)
MulCarry(a, k, c) ==
  IF a = <<>> THEN FromInt(c)
  ELSE Bind(<<Tail(a), Head(a) * k + c>>, LAMBDA t :
         <<t[2] % Radix>> \o MulCarry(t[1], k, t[2] \div Radix))

\* a * k for one limb k
BigMulLimb(a, k) ==
  Bind2(a, k, LAMBDA x, y : IF y = 0 THEN <<>> ELSE MulCarry(x, y, 0))

ShiftUp(a) == Bind(a, LAMBDA x : IF x = <<>> THEN <<>> ELSE <<0>> \o x)

RECURSIVE BigMul(_, _)
BigMul(a, b) ==
  Bind2(a, b, LAMBDA x, y :
    IF x = <<>> \/ y = <<>> THEN <<>>
    ELSE BigAdd(BigMulLimb(x, Head(y)), ShiftUp(BigMul(x, Tail(y)))))

\* a < b: fewer limbs, or as many and the smaller limb where they first differ
BigLess(a, b) ==
  Bind2(a, b, LAMBDA x, y :
    IF Len(x) # Len(y) THEN Len(x) < Len(y)
    ELSE \E i \in 1..Len(x) :
           x[i] < y[i] /\ \A j \in (i + 1)..Len(x) : x[j] = y[j])

BigLeq(a, b) == ~BigLess(b, a)

\* The largest q with d * q <= r, searched downwards from an upper estimate.
RECURSIVE QuotDown(_, _, _)
QuotDown(r, d, q) ==
  IF BigLeq(BigMulLimb(d, q), r) THEN q ELSE QuotDown(r, d, q - 1)

Limb(a, i) == IF 1 <= i /\ i <= Len(a) THEN a[i] ELSE 0

\* r \div d for r < d * Radix.  The estimate divides the leading limbs of r by
\* the two leading limbs of d; it is never below the quotient.
QuotLimb(r, d) ==
  Bind2(r, d, LAMBDA x, y :
    LET n == Len(y)
    IN  IF BigLess(x, y) THEN 0
        ELSE IF n = 1 THEN (Limb(x, 1) + Limb(x, 2) * Radix) \div y[1]
        ELSE Bind((Limb(x, n - 1) + Limb(x, n) * Radix
                     + Limb(x, n + 1) * Radix * Radix)
                    \div (y[n - 1] + y[n] * Radix),
                  LAMBDA est : QuotDown(x, y, IF est < Radix THEN est ELSE Radix - 1)))

\* One step of long division: the next limb of the dividend is brought down to
\* the remainder; the quotient limb and the new remainder.
DivStep(limb, rem, d) ==
  Bind(Norm(<<limb>> \o rem), LAMBDA cur :
    Bind(QuotLimb(cur, d), LAMBDA ql :
      [q |-> ql, r |-> BigSub(cur, BigMulLimb(d, ql))]))

\* Long division, from limb i of a down to limb 1, with the remainder and the
\* quotient limbs so far.
RECURSIVE DivFrom(_, _, _, _, _)
DivFrom(a, d, i, rem, quot) ==
  IF i = 0 THEN [q |-> quot, r |-> rem]
  ELSE Bind(DivStep(a[i], rem, d), LAMBDA st :
         DivFrom(a, d, i - 1, st.r, <<st.q>> \o quot))

\* a / d and a % d for d > 0
BigDiv(a, d) == Bind2(a, d, LAMBDA x, y : Norm(DivFrom(x, y, Len(x), <<>>, <<>>).q))
BigMod(a, d) == Bind2(a, d, LAMBDA x, y : DivFrom(x, y, Len(x), <<>>, <<>>).r)

\* A value below 10^9 (a Duration's nanos field) as a model integer.
ToInt(a) ==
  Bind(a, LAMBDA x : Limb(x, 1) + Limb(x, 2) * Radix + Limb(x, 3) * Radix * Radix)

\* u64::MAX = 18_446_744_073_709_551_615
U64_MAX == Lit(<<18, 446, 744, 73, 709, 551, 615>>)

NANOS_PER_SEC == 1000000000
NANOS_PER_MILLI == 1000000
NANOS_PER_MICRO == 1000
MILLIS_PER_SEC == 1000
MICROS_PER_SEC == 1000000

\* ------------------------------------------------------------------------
\* Constants of the program
\* ------------------------------------------------------------------------

YEAR_IN_NANO == Lit(<<31, 556, 926, 0, 0, 0>>)
WEEK_IN_NANO == Lit(<<604, 800, 0, 0, 0>>)
DAY_IN_NANO == Lit(<<86, 400, 0, 0, 0>>)
HOUR_IN_NANO == Lit(<<3, 600, 0, 0, 0>>)
MINUTE_IN_NANO == Lit(<<60, 0, 0, 0>>)
SECOND_IN_NANO == Lit(<<1, 0, 0, 0>>)
MILLISECOND_IN_NANO == Lit(<<1, 0, 0>>)
MICROSECOND_IN_NANO == Lit(<<1, 0>>)

HOUR_IN_SECONDS == 3600
MINUTE_IN_SECONDS == 60
DAY_IN_SECONDS == 86400
WEEK_IN_SECONDS == 604800
YEAR_IN_SECONDS == 31556926

\* ------------------------------------------------------------------------
\* Characters and strings
\* ------------------------------------------------------------------------

DigitChars == <<"0", "1", "2", "3", "4", "5", "6", "7", "8", "9">>

IsAsciiDigit(c) == \E d \in 1..10 : DigitChars[d] = c

DigitVal(c) == (CHOOSE d \in 1..10 : DigitChars[d] = c) - 1

\* char::is_numeric: the Unicode categories Nd, Nl and No
IsNumeric(c) == IsAsciiDigit(c) \/ c = "SUP2"

\* char::is_whitespace
IsWhitespace(c) == c \in {" ", "\t", "\n"}

Pad3(l) ==
  << DigitChars[(l \div 100) + 1], DigitChars[((l \div 10) % 10) + 1],
     DigitChars[(l % 10) + 1] >>

RECURSIVE AllLimbs(_, _)
AllLimbs(a, i) == IF i = 0 THEN <<>> ELSE Pad3(a[i]) \o AllLimbs(a, i - 1)

\* s without its leading zeros, the last digit kept
DropZeros(s) ==
  Bind(s, LAMBDA x :
    LET nz == { i \in 1..Len(x) : x[i] # "0" }
    IN  IF nz = {} THEN (IF x = <<>> THEN <<>> ELSE <<"0">>)
        ELSE SubSeq(x, CHOOSE i \in nz : \A j \in nz : i <= j, Len(x)))

\* u128::to_string: the decimal digits, no leading zero, "0" for zero
to_string(a) ==
  Bind(a, LAMBDA x : IF x = <<>> THEN <<"0">> ELSE DropZeros(AllLimbs(x, Len(x))))

IntOk(v) == [ok |-> TRUE, kind |-> "", val |-> v]
IntErr(kind) == [ok |-> FALSE, kind |-> kind, val |-> <<>>]

\* result.checked_mul(10) and then checked_add(digit) in u64
DigitStep(acc, digit) ==
  Bind(BigMulLimb(acc, 10), LAMBDA mul :
    IF BigLess(U64_MAX, mul) THEN IntErr("PosOverflow")
    ELSE Bind(BigAdd(mul, FromInt(digit)), LAMBDA sum :
           IF BigLess(U64_MAX, sum) THEN IntErr("PosOverflow") ELSE IntOk(sum)))

\* The digit loop of u64::from_str: each character must be an ASCII digit,
\* then result * 10 and + digit are checked against u64::MAX.
RECURSIVE ParseDigits(_, _, _)
ParseDigits(s, i, acc) ==
  IF i > Len(s) THEN IntOk(acc)
  ELSE IF ~IsAsciiDigit(s[i]) THEN IntErr("InvalidDigit")
  ELSE Bind(DigitStep(acc, DigitVal(s[i])), LAMBDA st :
         IF ~st.ok THEN st ELSE ParseDigits(s, i + 1, st.val))

\* str::parse::<u64>
ParseU64(s) ==
  Bind(s, LAMBDA x :
    IF x = <<>> THEN IntErr("Empty")
    ELSE Bind(IF Head(x) = "+" THEN Tail(x) ELSE x, LAMBDA digits :
           IF digits = <<>> THEN IntErr("InvalidDigit")
           ELSE ParseDigits(digits, 1, <<>>)))

\* ------------------------------------------------------------------------
\* std::time::Duration
\* ------------------------------------------------------------------------

Dur(secs, nanos) == [secs |-> secs, nanos |-> nanos]

ZERO == Dur(<<>>, 0)

from_secs(n) == Dur(n, 0)

from_millis(n) ==
  Bind(n, LAMBDA x :
    Dur(BigDiv(x, FromInt(MILLIS_PER_SEC)),
        ToInt(BigMod(x, FromInt(MILLIS_PER_SEC))) * NANOS_PER_MILLI))

from_micros(n) ==
  Bind(n, LAMBDA x :
    Dur(BigDiv(x, FromInt(MICROS_PER_SEC)),
        ToInt(BigMod(x, FromInt(MICROS_PER_SEC))) * NANOS_PER_MICRO))

from_nanos(n) ==
  Bind(n, LAMBDA x :
    Dur(BigDiv(x, FromInt(NANOS_PER_SEC)), ToInt(BigMod(x, FromInt(NANOS_PER_SEC)))))

\* Option<Duration>: <<>> is None, <<d>> is Some(d)
checked_mul(d, rhs) ==
  Bind2(BigMul(FromInt(d.nanos), FromInt(rhs)), BigMul(d.secs, FromInt(rhs)),
        LAMBDA total_nanos, mul :
    IF BigLess(U64_MAX, mul) THEN <<>>
    ELSE Bind(BigAdd(mul, BigDiv(total_nanos, FromInt(NANOS_PER_SEC))), LAMBDA secs :
           IF BigLess(U64_MAX, secs) THEN <<>>
           ELSE <<Dur(secs, ToInt(BigMod(total_nanos, FromInt(NANOS_PER_SEC))))>>))

\* Duration::saturating_add, which checked_add is not: the largest Duration
\* where the sum does not fit
saturating_add(a, b) ==
  Bind2(BigAdd(a.secs, b.secs), a.nanos + b.nanos, LAMBDA secs, nanos :
    LET carry == IF nanos >= NANOS_PER_SEC THEN 1 ELSE 0
    IN  Bind(BigAdd(secs, FromInt(carry)), LAMBDA sum :
          IF BigLess(U64_MAX, sum) THEN <<Dur(U64_MAX, NANOS_PER_SEC - 1)>>
          ELSE <<Dur(sum, nanos - carry * NANOS_PER_SEC)>>))

checked_add(a, b) ==
  Bind2(BigAdd(a.secs, b.secs), a.nanos + b.nanos, LAMBDA secs, nanos :
    IF BigLess(U64_MAX, secs) THEN <<>>
    ELSE IF nanos >= NANOS_PER_SEC
         THEN Bind(BigAdd(secs, FromInt(1)), LAMBDA carried :
                IF BigLess(U64_MAX, carried) THEN <<>>
                ELSE <<Dur(carried, nanos - NANOS_PER_SEC)>>)
         ELSE <<Dur(secs, nanos)>>)

as_nanos(d) ==
  Bind(d, LAMBDA x : BigAdd(BigMul(x.secs, FromInt(NANOS_PER_SEC)), FromInt(x.nanos)))

\* ------------------------------------------------------------------------
\* impl From<DurationString> for String
\* ------------------------------------------------------------------------

\* the chain without its week branch
IntoStringNoWeek(value) ==
  Bind(as_nanos(value), LAMBDA ns :
      IF BigMod(ns, YEAR_IN_NANO) = <<>>
        THEN to_string(BigDiv(ns, YEAR_IN_NANO)) \o <<"y">>
      ELSE IF BigMod(ns, DAY_IN_NANO) = <<>>
        THEN to_string(BigDiv(ns, DAY_IN_NANO)) \o <<"d">>
      ELSE IF BigMod(ns, HOUR_IN_NANO) = <<>>
        THEN to_string(BigDiv(ns, HOUR_IN_NANO)) \o <<"h">>
      ELSE IF BigMod(ns, MINUTE_IN_NANO) = <<>>
        THEN to_string(BigDiv(ns, MINUTE_IN_NANO)) \o <<"m">>
      ELSE IF BigMod(ns, SECOND_IN_NANO) = <<>>
        THEN to_string(BigDiv(ns, SECOND_IN_NANO)) \o <<"s">>
      ELSE IF BigMod(ns, MILLISECOND_IN_NANO) = <<>>
        THEN to_string(BigDiv(ns, MILLISECOND_IN_NANO)) \o <<"m", "s">>
      ELSE IF BigMod(ns, MICROSECOND_IN_NANO) = <<>>
        THEN to_string(BigDiv(ns, MICROSECOND_IN_NANO)) \o <<"u", "s">>
      ELSE to_string(ns) \o <<"n", "s">>)

\* impl From<DurationString> for String
IntoString(value) ==
  Bind(as_nanos(value), LAMBDA ns :
      IF BigMod(ns, YEAR_IN_NANO) = <<>>
        THEN to_string(BigDiv(ns, YEAR_IN_NANO)) \o <<"y">>
      ELSE IF BigMod(ns, WEEK_IN_NANO) = <<>>
        THEN to_string(BigDiv(ns, WEEK_IN_NANO)) \o <<"w">>
      ELSE IF BigMod(ns, DAY_IN_NANO) = <<>>
        THEN to_string(BigDiv(ns, DAY_IN_NANO)) \o <<"d">>
      ELSE IF BigMod(ns, HOUR_IN_NANO) = <<>>
        THEN to_string(BigDiv(ns, HOUR_IN_NANO)) \o <<"h">>
      ELSE IF BigMod(ns, MINUTE_IN_NANO) = <<>>
        THEN to_string(BigDiv(ns, MINUTE_IN_NANO)) \o <<"m">>
      ELSE IF BigMod(ns, SECOND_IN_NANO) = <<>>
        THEN to_string(BigDiv(ns, SECOND_IN_NANO)) \o <<"s">>
      ELSE IF BigMod(ns, MILLISECOND_IN_NANO) = <<>>
        THEN to_string(BigDiv(ns, MILLISECOND_IN_NANO)) \o <<"m", "s">>
      ELSE IF BigMod(ns, MICROSECOND_IN_NANO) = <<>>
        THEN to_string(BigDiv(ns, MICROSECOND_IN_NANO)) \o <<"u", "s">>
      ELSE to_string(ns) \o <<"n", "s">>)

\* ------------------------------------------------------------------------
\* impl FromStr for DurationString
\* ------------------------------------------------------------------------

\* Result<DurationString, Error>; val is <<d>> for Ok(d) and <<>> for an error
Ok(d) == [tag |-> "Ok", kind |-> "", val |-> <<d>>]
ErrFormat == [tag |-> "Format", kind |-> "", val |-> <<>>]
ErrOverflow == [tag |-> "Overflow", kind |-> "", val |-> <<>>]
ErrParseInt(kind) == [tag |-> "ParseInt", kind |-> kind, val |-> <<>>]
NoResult == [tag |-> "None", kind |-> "", val |-> <<>>]

\* str::trim, which the filter is not: whitespace removed at the two ends only
trim(s) ==
  LET keep == { i \in 1..Len(s) : ~IsWhitespace(s[i]) }
  IN  IF keep = {} THEN <<>>
      ELSE SubSeq(s, CHOOSE i \in keep : \A j \in keep : i <= j,
                     CHOOSE i \in keep : \A j \in keep : j <= i)

\* line 221: duration.chars().filter(|c| !c.is_whitespace())
FilterWhitespace(s) == SelectSeq(s, LAMBDA c : ~IsWhitespace(c))

\* The groups the loop of lines 223-235 leaves.  It starts from one empty
\* group and opens the next one after each non-numeric character that a numeric
\* one follows, so a group begins at character 1 and at every numeric character
\* behind a non-numeric one; every character is pushed, in order, to the period
\* (numeric) or the format (not numeric) of the group open at it.
GroupStarts(chars) ==
  {1} \cup { i \in 2..Len(chars) : ~IsNumeric(chars[i - 1]) /\ IsNumeric(chars[i]) }

GroupLoop(chars) ==
  Bind2(chars, GroupStarts(chars), LAMBDA cs, starts :
    LET n        == Cardinality(starts)
        first(j) == CHOOSE i \in starts : Cardinality({ b \in starts : b <= i }) = j
        last(j)  == IF j = n THEN Len(cs) ELSE first(j + 1) - 1
    IN  [ j \in 1..n |->
            Bind(SubSeq(cs, first(j), last(j)), LAMBDA seg :
              [ period |-> SelectSeq(seg, IsNumeric),
                format |-> SelectSeq(seg, LAMBDA c : ~IsNumeric(c)) ]) ])

\* let multiply_period = |multiplier| Duration::from_secs(period).checked_mul(multiplier)
multiply_period(period, multiplier) ==
  Bind(checked_mul(from_secs(period), multiplier), LAMBDA r :
    IF r = <<>> THEN ErrOverflow ELSE Ok(r[1]))

\* the match with a fallback to seconds in place of `_ => Err(Error::Format)`
period_duration_or_secs(period, format) ==
  CASE format = <<"n", "s">> -> Ok(from_nanos(period))
    [] format = <<"u", "s">> -> Ok(from_micros(period))
    [] format = <<"m", "s">> -> Ok(from_millis(period))
    [] format = <<"m">> -> multiply_period(period, MINUTE_IN_SECONDS)
    [] format = <<"h">> -> multiply_period(period, HOUR_IN_SECONDS)
    [] format = <<"d">> -> multiply_period(period, DAY_IN_SECONDS)
    [] format = <<"w">> -> multiply_period(period, WEEK_IN_SECONDS)
    [] format = <<"y">> -> multiply_period(period, YEAR_IN_SECONDS)
    [] OTHER -> Ok(from_secs(period))

\* lines 251-262: the match on the format
period_duration(period, format) ==
  CASE format = <<"n", "s">> -> Ok(from_nanos(period))
    [] format = <<"u", "s">> -> Ok(from_micros(period))
    [] format = <<"m", "s">> -> Ok(from_millis(period))
    [] format = <<"s">> -> Ok(from_secs(period))
    [] format = <<"m">> -> multiply_period(period, MINUTE_IN_SECONDS)
    [] format = <<"h">> -> multiply_period(period, HOUR_IN_SECONDS)
    [] format = <<"d">> -> multiply_period(period, DAY_IN_SECONDS)
    [] format = <<"w">> -> multiply_period(period, WEEK_IN_SECONDS)
    [] format = <<"y">> -> multiply_period(period, YEAR_IN_SECONDS)
    [] OTHER -> ErrFormat

\* the body with `total_duration = duration` in place of the checked sum
GroupBodyAssign(total, group) ==
  Bind(ParseU64(group.period), LAMBDA period :
    IF ~period.ok THEN ErrParseInt(period.kind)
    ELSE period_duration(period.val, group.format))

\* the body with the format matched before the period is parsed
GroupBodyFormatFirst(total, group) ==
  IF period_duration(<<>>, group.format) = ErrFormat THEN ErrFormat
  ELSE Bind(ParseU64(group.period), LAMBDA period :
         IF ~period.ok THEN ErrParseInt(period.kind)
         ELSE Bind(period_duration(period.val, group.format), LAMBDA pd :
                IF pd.tag # "Ok" THEN pd
                ELSE Bind(checked_add(total, pd.val[1]), LAMBDA sum :
                       IF sum = <<>> THEN ErrOverflow ELSE Ok(sum[1]))))

\* The body of `for (period, format) in grouped_durations`: the new total, or
\* the error the `?` operators return.
GroupBody(total, group) ==
  Bind(ParseU64(group.period), LAMBDA period :
    IF ~period.ok THEN ErrParseInt(period.kind)
    ELSE Bind(period_duration(period.val, group.format), LAMBDA pd :
           IF pd.tag # "Ok" THEN pd
           ELSE Bind(checked_add(total, pd.val[1]), LAMBDA sum :
                  IF sum = <<>> THEN ErrOverflow ELSE Ok(sum[1]))))

RECURSIVE ForGroups(_, _, _)
ForGroups(groups, i, total) ==
  IF i > Len(groups) THEN Ok(total)
  ELSE Bind(GroupBody(total, groups[i]), LAMBDA r :
         IF r.tag # "Ok" THEN r ELSE ForGroups(groups, i + 1, r.val[1]))

\* from_str as a function of its argument
from_str(s) ==
  Bind(GroupLoop(FilterWhitespace(s)), LAMBDA groups :
    IF groups = <<>> THEN ErrFormat ELSE ForGroups(groups, 1, ZERO))

\* ------------------------------------------------------------------------
\* Inputs
\* ------------------------------------------------------------------------

MaxPieces == 4
MaxComps == 2
MaxCount == 2

\* the digits of a number written in groups of three
Digits(groups) == to_string(Lit(groups))

\* an ASCII digit, u64::MAX in digits, unit letters, characters of no unit,
\* a whitespace character and a numeric character that is no ASCII digit
Pieces ==
  { <<"1">>, Digits(<<18, 446, 744, 73, 709, 551, 615>>),
    <<"m">>, <<"s">>, <<"x">>, <<".">>, <<"-">>, <<" ">>, <<"SUP2">> }

RECURSIVE Concat(_)
Concat(ss) == IF ss = <<>> THEN <<>> ELSE Head(ss) \o Concat(Tail(ss))

Texts == { Concat(ps) : ps \in UNION { [1..n -> Pieces] : n \in 0..MaxPieces } }

Units ==
  { <<"n", "s">>, <<"u", "s">>, <<"m", "s">>, <<"s">>, <<"m">>, <<"h">>,
    <<"d">>, <<"w">>, <<"y">> }

\* 1, u64::MAX and u64::MAX + 1 with every unit; 999_999_999 ns, one below a
\* second; 584_554_530_872 and 584_554_530_873 years, either side of u64::MAX
\* seconds
Components ==
  [ mag : { <<"1">>, Digits(<<18, 446, 744, 73, 709, 551, 615>>),
            Digits(<<18, 446, 744, 73, 709, 551, 616>>) },
    unit : Units ]
  \cup [ mag : { Digits(<<999, 999, 999>>) }, unit : { <<"n", "s">> } ]
  \cup [ mag : { Digits(<<584, 554, 530, 872>>), Digits(<<584, 554, 530, 873>>) },
         unit : { <<"y">> } ]

ComponentText(c) == c.mag \o c.unit

RECURSIVE Render(_)
Render(cs) == IF cs = <<>> THEN <<>> ELSE ComponentText(Head(cs)) \o Render(Tail(cs))

ComponentSeqs == UNION { [1..n -> Components] : n \in 0..MaxComps }

SecsValues ==
  { FromInt(m * s) : m \in 0..MaxCount, s \in {1, 60, 61, 3600, 86400, 604800, 31556926} }
  \cup { U64_MAX, Lit(<<18, 446, 744, 73>>),
         BigMul(Lit(<<584, 554, 530, 872>>), FromInt(YEAR_IN_SECONDS)) }

NanosValues ==
  { m * n : m \in 0..MaxCount, n \in {1, 1000, 1000000, 100000000} }
  \cup { 999999999, 709551615, 709551616 }

Durations == { Dur(s, n) : s \in SecsValues, n \in NanosValues }

\* ------------------------------------------------------------------------
\* State
\* ------------------------------------------------------------------------

VARIABLES
  pc,                 \* the step the caller or from_str is at
  plan,               \* the calls still to make
  comps,              \* the components the caller wrote the input from
  input,              \* the argument of from_str
  duration,           \* from_str: the characters left after the filter
  grouped_durations,  \* from_str: the (period, format) groups
  k,                  \* from_str: the group the second loop is at
  total_duration,     \* from_str: the running total
  result,             \* what from_str returned
  value,              \* the DurationString handed to the formatter
  text                \* what the formatter returned

vars ==
  << pc, plan, comps, input, duration, grouped_durations, k, total_duration,
     result, value, text >>

Start(p, cs, s, v) ==
  /\ pc = Head(p)
  /\ plan = p
  /\ comps = cs
  /\ input = s
  /\ duration = <<>>
  /\ grouped_durations = <<>>
  /\ k = 0
  /\ total_duration = ZERO
  /\ result = NoResult
  /\ value = v
  /\ text = <<>>

\* a caller that parses a text
InitText == \E s \in Texts : Start(<<"from_str">>, <<>>, s, ZERO)

\* the same caller, the text written from components
InitComps ==
  \E cs \in ComponentSeqs : Start(<<"from_str">>, cs, Render(cs), ZERO)

\* a caller that formats a Duration and parses the string back
InitDuration ==
  \E d \in Durations : Start(<<"into_string", "from_str">>, <<>>, <<>>, d)

\* what follows the call that just returned
Continue(rest) == IF rest = <<>> THEN "done" ELSE Head(rest)

\* String::from(value), lines 172-201
IntoStringCall ==
  /\ pc = "into_string"
  /\ \E string \in {IntoString(value)} :
       /\ text' = string
       /\ input' = IF Tail(plan) = <<>> THEN input ELSE string
  /\ plan' = Tail(plan)
  /\ pc' = Continue(Tail(plan))
  /\ UNCHANGED << comps, duration, grouped_durations, k, total_duration, result, value >>

\* from_str, lines 221-222
FromStrFilter ==
  /\ pc = "from_str"
  /\ duration' = FilterWhitespace(input)
  /\ grouped_durations' = << [period |-> <<>>, format |-> <<>>] >>
  /\ pc' = "group"
  /\ UNCHANGED << plan, comps, input, k, total_duration, result, value, text >>

\* from_str, lines 223-235
FromStrGroup ==
  /\ pc = "group"
  /\ grouped_durations' = GroupLoop(duration)
  /\ pc' = "check"
  /\ UNCHANGED << plan, comps, input, duration, k, total_duration, result, value, text >>

\* from_str, lines 236-240
FromStrCheck ==
  /\ pc = "check"
  /\ IF grouped_durations = <<>>
     THEN /\ result' = ErrFormat
          /\ pc' = "done"
          /\ UNCHANGED << k, total_duration >>
     ELSE /\ total_duration' = ZERO
          /\ k' = 1
          /\ pc' = "loop"
          /\ UNCHANGED result
  /\ UNCHANGED << plan, comps, input, duration, grouped_durations, value, text >>

\* from_str, lines 241-266: one iteration
FromStrLoop ==
  /\ pc = "loop"
  /\ k <= Len(grouped_durations)
  /\ \E r \in {GroupBody(total_duration, grouped_durations[k])} :
         IF r.tag = "Ok"
         THEN /\ total_duration' = r.val[1]
              /\ k' = k + 1
              /\ UNCHANGED << pc, result >>
         ELSE /\ result' = r
              /\ pc' = "done"
              /\ UNCHANGED << k, total_duration >>
  /\ UNCHANGED << plan, comps, input, duration, grouped_durations, value, text >>

\* from_str, line 267
FromStrReturn ==
  /\ pc = "loop"
  /\ k > Len(grouped_durations)
  /\ result' = Ok(total_duration)
  /\ plan' = Tail(plan)
  /\ pc' = Continue(Tail(plan))
  /\ value' = IF Tail(plan) = <<>> THEN value ELSE total_duration
  /\ UNCHANGED << comps, input, duration, grouped_durations, k, total_duration, text >>

\* from_str, step by step
ParseNext ==
  \/ FromStrFilter
  \/ FromStrGroup
  \/ FromStrCheck
  \/ FromStrLoop
  \/ FromStrReturn

Next ==
  \/ IntoStringCall
  \/ ParseNext

Spec == InitText /\ [][ParseNext]_vars
SpecComps == InitComps /\ [][ParseNext]_vars
SpecDuration == InitDuration /\ [][Next]_vars

\* ------------------------------------------------------------------------
\* What the statements below speak of
\* ------------------------------------------------------------------------

Done == pc = "done"

AllAsciiDigits(s) == \A i \in 1..Len(s) : IsAsciiDigit(s[i])

\* the number a run of ASCII digits denotes
RECURSIVE DecimalValue(_)
DecimalValue(ds) ==
  IF ds = <<>> THEN <<>>
  ELSE BigAdd(BigMulLimb(DecimalValue(SubSeq(ds, 1, Len(ds) - 1)), 10),
              FromInt(DigitVal(ds[Len(ds)])))

\* a run of ASCII digits that denotes at most 2^64 - 1 (which has 20 digits)
FitsU64(ds) ==
  LET sig == DropZeros(ds)
  IN  Len(sig) <= 20 /\ BigLeq(DecimalValue(sig), U64_MAX)

\* the unit table: the length of each unit in nanoseconds
UnitLength(u) ==
  CASE u = <<"n", "s">> -> Lit(<<1>>)
    [] u = <<"u", "s">> -> Lit(<<1, 0>>)
    [] u = <<"m", "s">> -> Lit(<<1, 0, 0>>)
    [] u = <<"s">> -> Lit(<<1, 0, 0, 0>>)
    [] u = <<"m">> -> Lit(<<60, 0, 0, 0>>)
    [] u = <<"h">> -> Lit(<<3, 600, 0, 0, 0>>)
    [] u = <<"d">> -> Lit(<<86, 400, 0, 0, 0>>)
    [] u = <<"w">> -> Lit(<<604, 800, 0, 0, 0>>)
    [] u = <<"y">> -> Lit(<<31, 556, 926, 0, 0, 0>>)

\* the largest Duration in nanoseconds: 2^64 - 1 seconds and 999,999,999 ns
LargestNanos == BigAdd(BigMul(U64_MAX, Lit(<<1, 0, 0, 0>>)), Lit(<<999, 999, 999>>))

\* magnitude x unit length of one component, and the sum over a sequence
ExactNanos(c) == BigMul(DecimalValue(DropZeros(c.mag)), UnitLength(c.unit))

RECURSIVE ExactTotal(_)
ExactTotal(cs) ==
  IF cs = <<>> THEN <<>> ELSE BigAdd(ExactNanos(Head(cs)), ExactTotal(Tail(cs)))

MagnitudesFit == \A i \in 1..Len(comps) : FitsU64(comps[i].mag)

IsOkOf(r, nanos) ==
  /\ r.tag = "Ok"
  /\ r.val[1].nanos < NANOS_PER_SEC
  /\ BigLeq(r.val[1].secs, U64_MAX)
  /\ as_nanos(r.val[1]) = nanos

\* ------------------------------------------------------------------------
\* C1  Round trip: for every Duration d, from 0 to 2^64-1 seconds plus
\*     999,999,999 ns, parsing the string the formatter produced succeeds and
\*     yields exactly d.
\* ------------------------------------------------------------------------
C1_RoundTrip == (Done /\ text # <<>>) => result = Ok(value)

\* ------------------------------------------------------------------------
\* C2  Parse value: an input that is a sequence of one or more components
\*     (digit run, unit suffix) whose total fits the Duration range parses to
\*     exactly the sum of magnitude x unit length over all components.
\* ------------------------------------------------------------------------
C2_ParseValue_AnyMagnitude ==
  (Done /\ comps # <<>> /\ BigLeq(ExactTotal(comps), LargestNanos))
    => IsOkOf(result, ExactTotal(comps))

\* C2 for components whose magnitudes each fit u64 (a larger digit run is an
\* integer-parse error whatever the total).
C2_ParseValue ==
  (Done /\ comps # <<>> /\ MagnitudesFit /\ BigLeq(ExactTotal(comps), LargestNanos))
    => IsOkOf(result, ExactTotal(comps))

\* two components of the same unit, both counted: "1m1m" is 120 seconds
C2_Witness ==
  /\ Done
  /\ Len(comps) = 2
  /\ comps[1].unit = comps[2].unit
  /\ MagnitudesFit
  /\ BigLeq(ExactTotal(comps), LargestNanos)
  /\ result.tag = "Ok"
  /\ result.val[1] # ZERO

\* ------------------------------------------------------------------------
\* C3  Overflow detection: for components whose magnitudes each fit u64, the
\*     parse returns Overflow exactly when the exact sum of magnitude x unit
\*     length exceeds the largest Duration, and otherwise the exact sum; never
\*     a wrapped, truncated or saturated value.
\* ------------------------------------------------------------------------
C3_Overflow ==
  (Done /\ comps # <<>> /\ MagnitudesFit)
    => /\ result.tag \in {"Ok", "Overflow"}
       /\ result.tag = "Overflow" <=> BigLess(LargestNanos, ExactTotal(comps))
       /\ result.tag = "Ok" => IsOkOf(result, ExactTotal(comps))

\* Overflow that arises only when the components are added
C3_Witness ==
  /\ Done
  /\ Len(comps) = 2
  /\ MagnitudesFit
  /\ \A i \in 1..2 : BigLeq(ExactNanos(comps[i]), LargestNanos)
  /\ result = ErrOverflow
  /\ k = 2

\* ------------------------------------------------------------------------
\* C4  Largest-unit formatting: the formatter returns one token q u, u the
\*     largest unit in the order y, w, d, h, m, s, ms, us whose length divides
\*     the nanosecond count ns exactly and q = ns / length(u); when none does,
\*     ns followed by "ns".
\* ------------------------------------------------------------------------
UnitOrder ==
  << <<"y">>, <<"w">>, <<"d">>, <<"h">>, <<"m">>, <<"s">>, <<"m", "s">>,
     <<"u", "s">>, <<"n", "s">> >>

DividesExactly(len, ns) == BigMul(BigDiv(ns, len), len) = ns

\* the first unit of the order whose length divides ns exactly ("ns" divides all)
LargestExactUnit(ns) ==
  UnitOrder[CHOOSE j \in 1..9 :
              /\ DividesExactly(UnitLength(UnitOrder[j]), ns)
              /\ \A h \in 1..(j - 1) : ~DividesExactly(UnitLength(UnitOrder[h]), ns)]

TokenOf(ns, unit) ==
  /\ text = to_string(BigDiv(ns, UnitLength(unit))) \o unit
  /\ BigMul(BigDiv(ns, UnitLength(unit)), UnitLength(unit)) = ns
  /\ AllAsciiDigits(SubSeq(text, 1, Len(text) - Len(unit)))

C4_LargestUnit ==
  text # <<>> =>
    \A ns \in {as_nanos(value)} : \A unit \in {LargestExactUnit(ns)} : TokenOf(ns, unit)

\* 61 seconds: a minute does not divide it, a second does
C4_Witness ==
  /\ value = Dur(FromInt(61), 0)
  /\ text = <<"6", "1", "s">>

\* ------------------------------------------------------------------------
\* C5  Empty input: an input that is empty, or all whitespace, fails with the
\*     Format error.
\* ------------------------------------------------------------------------
C5_EmptyIsFormat ==
  (Done /\ \A i \in 1..Len(input) : IsWhitespace(input[i])) => result = ErrFormat

\* ------------------------------------------------------------------------
\* C6  Order independence: for two components A and B with distinct units,
\*     parse(AB) and parse(BA) give the same outcome (the same duration or the
\*     same error), and a duration they give is the sum of parse(A) and
\*     parse(B).
\* ------------------------------------------------------------------------
TwoDistinctUnits == Done /\ Len(comps) = 2 /\ comps[1].unit # comps[2].unit

SumOfParts(a, b, r) ==
  /\ a.tag = "Ok"
  /\ b.tag = "Ok"
  /\ checked_add(a.val[1], b.val[1]) = r.val

C6_OrderIndependent_SameError ==
  TwoDistinctUnits =>
    \A swapped \in {from_str(Render(<<comps[2], comps[1]>>))} :
    \A a \in {from_str(ComponentText(comps[1]))} :
    \A b \in {from_str(ComponentText(comps[2]))} :
      /\ result = swapped
      /\ result.tag = "Ok" => SumOfParts(a, b, result)

\* C6 with the error of two failing components told apart: the same outcome,
\* except that when A and B each fail when parsed alone, each order returns the
\* error of the component it starts with.
C6_OrderIndependent ==
  TwoDistinctUnits =>
    \A swapped \in {from_str(Render(<<comps[2], comps[1]>>))} :
    \A a \in {from_str(ComponentText(comps[1]))} :
    \A b \in {from_str(ComponentText(comps[2]))} :
      IF a.tag # "Ok" /\ b.tag # "Ok"
      THEN result = a /\ swapped = b
      ELSE /\ result = swapped
           /\ result.tag = "Ok" => SumOfParts(a, b, result)

\* "1ms1us": 1001 microseconds in either order
C6_Witness ==
  /\ TwoDistinctUnits
  /\ comps[1] = [mag |-> <<"1">>, unit |-> <<"m", "s">>]
  /\ comps[2] = [mag |-> <<"1">>, unit |-> <<"u", "s">>]
  /\ result = Ok(Dur(<<>>, 1001000))

\* ------------------------------------------------------------------------
\* C7  One group: a whitespace-stripped input that is a digit run D followed
\*     by a non-digit run U fails with IntegerParse when D is empty or exceeds
\*     2^64-1; otherwise with Format when U is not one of the nine lowercase
\*     suffixes.  An empty magnitude is not taken as zero.
\* ------------------------------------------------------------------------
Stripped == SelectSeq(input, LAMBDA c : ~IsWhitespace(c))

\* the length of the leading run of decimal digits
LeadingRun(s) ==
  IF \A i \in 1..Len(s) : IsAsciiDigit(s[i]) THEN Len(s)
  ELSE (CHOOSE i \in 1..Len(s) :
          ~IsAsciiDigit(s[i]) /\ \A j \in 1..(i - 1) : IsAsciiDigit(s[j])) - 1

DigitRun == SubSeq(Stripped, 1, LeadingRun(Stripped))
Suffix == SubSeq(Stripped, LeadingRun(Stripped) + 1, Len(Stripped))

OneGroup == \A i \in 1..Len(Suffix) : ~IsAsciiDigit(Suffix[i])

C7_OneGroup ==
  (Done /\ OneGroup) =>
    IF DigitRun = <<>> \/ ~FitsU64(DigitRun) THEN result.tag = "ParseInt"
    ELSE Suffix \notin Units => result = ErrFormat

\* ------------------------------------------------------------------------
\* C8  Whitespace: parse(s) has the outcome of parse of s with every
\*     whitespace character removed, wherever the whitespace stands.
\* ------------------------------------------------------------------------
C8_Whitespace == Done => result = from_str(Stripped)

\* "1m s": whitespace inside the suffix, one millisecond
C8_Witness ==
  /\ Done
  /\ input = <<"1", "m", " ", "s">>
  /\ result = Ok(Dur(<<>>, 1000000))

\* ------------------------------------------------------------------------
\* C9  Grammar: parse returns a Duration only if the whitespace-stripped text
\*     is a non-empty concatenation of components Digit+ Unit; any other text
\*     is rejected with an error and no duration.
\* ------------------------------------------------------------------------
RunStarts(s) ==
  { i \in 1..Len(s) : IsAsciiDigit(s[i]) /\ (i = 1 \/ ~IsAsciiDigit(s[i - 1])) }

\* the text from the digit run at a up to the next digit run is Digit+ Unit
ComponentAt(s, a) ==
  LET later == { b \in RunStarts(s) : b > a }
      hi    == IF later = {} THEN Len(s)
               ELSE (CHOOSE b \in later : \A c \in later : b <= c) - 1
  IN  SelectSeq(SubSeq(s, a, hi), LAMBDA c : ~IsAsciiDigit(c)) \in Units

InGrammar(s) ==
  /\ s # <<>>
  /\ IsAsciiDigit(s[1])
  /\ \A a \in RunStarts(s) : ComponentAt(s, a)

C9_Grammar ==
  Done => /\ result.tag = "Ok" => InGrammar(Stripped)
          /\ ~InGrammar(Stripped) => result.tag # "Ok" /\ result.val = <<>>

\* "1m1s": two components
C9_Witness ==
  /\ Done
  /\ input = <<"1", "m", "1", "s">>
  /\ result = Ok(Dur(FromInt(61), 0))

\* ------------------------------------------------------------------------
\* C10 Error precedence: groups are evaluated in text order and, in a group,
\*     the digit run, then the suffix, then scaling overflow, then overflow of
\*     the running total; the first check that fails gives the error and no
\*     later group is looked at.
\* ------------------------------------------------------------------------
ValidNumeral(ds) == ds # <<>> /\ AllAsciiDigits(ds) /\ FitsU64(ds)

GroupNanos(g) == BigMul(DecimalValue(DropZeros(g.period)), UnitLength(g.format))

RECURSIVE PrefixNanos(_, _)
PrefixNanos(gs, n) ==
  IF n = 0 THEN <<>> ELSE BigAdd(PrefixNanos(gs, n - 1), GroupNanos(gs[n]))

\* the first check group j fails, the groups before it having passed
FirstCheck(gs, j) ==
  IF ~ValidNumeral(gs[j].period) THEN "ParseInt"
  ELSE IF gs[j].format \notin Units THEN "Format"
  ELSE IF BigLess(LargestNanos, GroupNanos(gs[j])) THEN "Overflow"
  ELSE IF BigLess(LargestNanos, PrefixNanos(gs, j)) THEN "Overflow"
  ELSE "Ok"

C10_Precedence ==
  Done =>
    IF \A j \in 1..Len(grouped_durations) : FirstCheck(grouped_durations, j) = "Ok"
    THEN result.tag = "Ok"
    ELSE \E f \in 1..Len(grouped_durations) :
           /\ \A h \in 1..(f - 1) : FirstCheck(grouped_durations, h) = "Ok"
           /\ FirstCheck(grouped_durations, f) # "Ok"
           /\ result.tag = FirstCheck(grouped_durations, f)
           /\ result.val = <<>>
           /\ k = f

\* Overflow at a group, reported although the next group has no valid suffix
C10_Witness ==
  /\ Done
  /\ result = ErrOverflow
  /\ k < Len(grouped_durations)
  /\ grouped_durations[k + 1].format \notin Units

====
